---- MODULE Spec2Model ----
(***************************************************************************)
(* Model of the chat screen of src/frontend/App.tsx: the React state of    *)
(* the App component, its event handlers, the two awaits of sendToBackend  *)
(* and the awaits of toggleListening.  One JavaScript task (a handler run  *)
(* up to its next await) is one action.                                    *)
(***************************************************************************)
EXTENDS Integers, Sequences, FiniteSets

\* ---------------------------------------------------------------- bounds
MaxSends == 2       \* requests dispatched in one run
MaxTicks == 1       \* milliseconds the clock advances in one run
MaxToggles == 2     \* calls of toggleListening suspended at one time

\* ------------------------------------------------------------------ data
\* A text is a sequence of characters; " " stands for any whitespace.
\* The texts the user types and the engine recognizes:
\*   "", "  ", " a ", "b"
Strings == {<<>>, <<" ", " ">>, <<" ", "a", " ">>, <<"b">>}

IsSpace(c) == c = " "

RECURSIVE TrimStart(_)
TrimStart(s) ==
  IF s = <<>> THEN s
  ELSE IF IsSpace(Head(s)) THEN TrimStart(Tail(s)) ELSE s

RECURSIVE TrimEnd(_)
TrimEnd(s) ==
  IF s = <<>> THEN s
  ELSE IF IsSpace(s[Len(s)]) THEN TrimEnd(SubSeq(s, 1, Len(s) - 1)) ELSE s

\* Trim with trimStart in place of trim
Trim_StartOnly(s) == TrimStart(s)

\* String.prototype.trim
Trim(s) == TrimEnd(TrimStart(s))

\* JavaScript truthiness of a string
Truthy(s) == s # <<>>

\* Date.now() of the first task of the run, in milliseconds
StartTimes == {9}

\* Number.prototype.toString: the decimal digits of n, most significant first
RECURSIVE toString(_)
toString(n) ==
  IF n < 10 THEN <<n>> ELSE Append(toString(n \div 10), n % 10)

\* the text shown when the payload carries no answer
NoResponseText == <<"No response from LLM.">>

\* answers the backend may put in its payload
Answers == {<<>>, <<" ">>, <<"a">>}

\* HTTP statuses of a response
Statuses == {200, 500}

\* what response.json() finds in the body
Bodies ==
  {[kind |-> k, hasAnswer |-> FALSE, answer |-> <<>>] : k \in {"invalid", "null", "object"}}
  \cup {[kind |-> "object", hasAnswer |-> TRUE, answer |-> a] : a \in Answers}

\* e.error.message of a SpeechErrorEvent
Reasons == {"no match"}

\* e.value of a SpeechResultsEvent: absent, or an ordered list of candidates
OtherCandidate == <<"a">>

ResultValues ==
  {[present |-> FALSE, value |-> <<>>], [present |-> TRUE, value |-> <<>>]}
  \cup {[present |-> TRUE, value |-> <<s>>] : s \in Strings}
  \cup {[present |-> TRUE, value |-> <<s, OtherCandidate>>] : s \in Strings}

PlatformOS == "android"

\* ----------------------------------------------------------------- state
VARIABLES
  messages,            \* useState<Message[]>
  isListening,         \* useState(false)
  manualText,          \* useState('')
  voiceOutputEnabled,  \* useState(false)
  isSending,           \* useState(false)
  requests,            \* the calls of sendToBackend not yet settled, in dispatch order
  completed,           \* the settled calls of sendToBackend, in the order their finally ran
  now,                 \* Date.now()
  ticks,               \* milliseconds elapsed since the run began
  alertOut,            \* the Alert.alert call of the last task, <<>> if none
  speakOut,            \* the Tts.speak call of the last task, <<>> if none
  handled,             \* the response the last task ran to its end with, if it did
  awaiting             \* toggleListening calls suspended at each of its awaits:
                       \* Voice.stop(), requestMicrophonePermission(), Voice.start()

chatVars == <<messages, manualText, voiceOutputEnabled, isSending, requests, completed>>
clockVars == <<now, ticks>>
outVars == <<alertOut, speakOut, handled>>
voiceVars == <<awaiting>>
vars == <<chatVars, isListening, clockVars, outVars, voiceVars>>

NoBody == [kind |-> "none", hasAnswer |-> FALSE, answer |-> <<>>]
NoResponse == [status |-> 0, body |-> NoBody]
\* what a rejected fetch leaves in place of a body
FetchRejected == [kind |-> "rejected", hasAnswer |-> FALSE, answer |-> <<>>]
NoAlert == <<>>
NoSpeak == <<>>
Quiet == alertOut' = NoAlert /\ speakOut' = NoSpeak /\ handled' = NoResponse

Init ==
  /\ messages = <<>>
  /\ isListening = FALSE
  /\ manualText = <<>>
  /\ voiceOutputEnabled = FALSE
  /\ isSending = FALSE
  /\ requests = <<>>
  /\ completed = <<>>
  /\ now \in StartTimes
  /\ ticks = 0
  /\ alertOut = NoAlert
  /\ speakOut = NoSpeak
  /\ handled = NoResponse
  /\ awaiting = [perm |-> 0, start |-> 0, stop |-> 0]

\* ------------------------------------------------------------ operations
\* the clock advances by one millisecond
Tick ==
  /\ ticks < MaxTicks
  /\ now' = now + 1
  /\ ticks' = ticks + 1
  /\ Quiet
  /\ UNCHANGED <<chatVars, isListening, voiceVars>>

\* addMessage with the new message put first: [newMessage, ...prevMessages]
addMessage_Prepends(prevMessages, text, sender) ==
  <<[id |-> toString(now), text |-> text, sender |-> sender]>> \o prevMessages

\* the Message addMessage builds, appended by setMessages
addMessage(prevMessages, text, sender) ==
  Append(prevMessages, [id |-> toString(now), text |-> text, sender |-> sender])

\* TextInput onChangeText={setManualText}
onChangeText ==
  /\ \E t \in Strings : manualText' = t
  /\ Quiet
  /\ UNCHANGED <<messages, voiceOutputEnabled, isSending, requests, completed>>
  /\ UNCHANGED <<isListening, clockVars, voiceVars>>

\* loudspeaker button: setVoiceOutputEnabled(prev => !prev)
toggleVoiceOutput ==
  /\ voiceOutputEnabled' = ~voiceOutputEnabled
  /\ Quiet
  /\ UNCHANGED <<messages, manualText, isSending, requests, completed>>
  /\ UNCHANGED <<isListening, clockVars, voiceVars>>

\* ------------------------------------------------ send and its request
\* the call sendToBackend(text): its closure keeps the voiceOutputEnabled
\* of the render whose handleSend made the call
sendToBackend(text) ==
  [prompt |-> text, voice |-> voiceOutputEnabled, pc |-> "fetch",
   status |-> 0, userIdx |-> Len(messages) + 1]

\* handleSend with the emptiness test made on manualText, not on the trimmed text
handleSend_TestsUntrimmed ==
  /\ ~isSending
  /\ LET textToSend == Trim(manualText) IN
       IF ~Truthy(manualText)
       THEN /\ alertOut' = <<"Input Required", "Please enter some text.">>
            /\ speakOut' = NoSpeak
            /\ handled' = NoResponse
            /\ UNCHANGED chatVars
       ELSE /\ Len(requests) + Len(completed) < MaxSends
            /\ messages' = addMessage(messages, textToSend, "user")
            /\ manualText' = <<>>
            /\ isSending' = TRUE
            /\ requests' = Append(requests, sendToBackend(textToSend))
            /\ Quiet
            /\ UNCHANGED <<voiceOutputEnabled, completed>>
  /\ UNCHANGED <<isListening, clockVars, voiceVars>>

\* handleSend on a send button that is never disabled
handleSend_NoGuard ==
  /\ LET textToSend == Trim(manualText) IN
       IF ~Truthy(textToSend)
       THEN /\ alertOut' = <<"Input Required", "Please enter some text.">>
            /\ speakOut' = NoSpeak
            /\ handled' = NoResponse
            /\ UNCHANGED chatVars
       ELSE /\ Len(requests) + Len(completed) < MaxSends
            /\ messages' = addMessage(messages, textToSend, "user")
            /\ manualText' = <<>>
            /\ isSending' = TRUE
            /\ requests' = Append(requests, sendToBackend(textToSend))
            /\ Quiet
            /\ UNCHANGED <<voiceOutputEnabled, completed>>
  /\ UNCHANGED <<isListening, clockVars, voiceVars>>

\* send button onPress={handleSend}, disabled={isSending}
handleSend ==
  /\ ~isSending
  /\ LET textToSend == Trim(manualText) IN
       IF ~Truthy(textToSend)
       THEN /\ alertOut' = <<"Input Required", "Please enter some text.">>
            /\ speakOut' = NoSpeak
            /\ handled' = NoResponse
            /\ UNCHANGED chatVars
       ELSE /\ Len(requests) + Len(completed) < MaxSends
            /\ messages' = addMessage(messages, textToSend, "user")
            /\ manualText' = <<>>
            /\ isSending' = TRUE
            /\ requests' = Append(requests, sendToBackend(textToSend))
            /\ Quiet
            /\ UNCHANGED <<voiceOutputEnabled, completed>>
  /\ UNCHANGED <<isListening, clockVars, voiceVars>>

RemoveAt(s, i) == SubSeq(s, 1, i - 1) \o SubSeq(s, i + 1, Len(s))

\* Finally without setIsSending(false)
Finally_KeepsSending(i, outcome, ansIdx) ==
  /\ isSending' = isSending
  /\ requests' = RemoveAt(requests, i)
  /\ completed' = Append(completed, [userIdx |-> requests[i].userIdx,
                                     outcome |-> outcome, ansIdx |-> ansIdx])

\* the end of request i: finally { setIsSending(false) }
Finally(i, outcome, ansIdx) ==
  /\ isSending' = FALSE
  /\ requests' = RemoveAt(requests, i)
  /\ completed' = Append(completed, [userIdx |-> requests[i].userIdx,
                                     outcome |-> outcome, ansIdx |-> ansIdx])

\* Catch that also shows the fallback text as an assistant message
Catch_AddsFallback(i, data) ==
  /\ handled' = [status |-> requests[i].status, body |-> data]
  /\ alertOut' = <<"Error", "Failed to get response from the server.">>
  /\ speakOut' = NoSpeak
  /\ Finally(i, "RequestFailed", 0)
  /\ messages' = addMessage(messages, NoResponseText, "llm")
  /\ UNCHANGED <<manualText, voiceOutputEnabled>>

\* catch (error) { Alert.alert(...) } finally { ... } of request i
Catch(i, data) ==
  /\ handled' = [status |-> requests[i].status, body |-> data]
  /\ alertOut' = <<"Error", "Failed to get response from the server.">>
  /\ speakOut' = NoSpeak
  /\ Finally(i, "RequestFailed", 0)
  /\ UNCHANGED <<messages, manualText, voiceOutputEnabled>>

\* await fetch(...) of request i rejects: the transport failed
fetchRejects(i) ==
  /\ i \in 1..Len(requests)
  /\ requests[i].pc = "fetch"
  /\ Catch(i, FetchRejected)
  /\ UNCHANGED <<isListening, clockVars, voiceVars>>

\* await fetch(...) of request i resolves with a response of any status
fetchResolves(i) ==
  /\ i \in 1..Len(requests)
  /\ requests[i].pc = "fetch"
  /\ \E s \in Statuses :
       requests' = [requests EXCEPT ![i].pc = "json", ![i].status = s]
  /\ Quiet
  /\ UNCHANGED <<messages, manualText, voiceOutputEnabled, isSending, completed>>
  /\ UNCHANGED <<isListening, clockVars, voiceVars>>

\* if (voiceOutputEnabled) { Tts.speak(data.answer) }, in the closure of request r
SpeakIfEnabled(r, answer) == IF r.voice THEN <<answer>> ELSE NoSpeak

\* if (data.answer)
HasAnswer(data) == data.hasAnswer /\ Truthy(data.answer)

\* Reply that speaks the fallback text too
Reply_SpeaksFallback(r, data) ==
  IF HasAnswer(data)
  THEN [text |-> data.answer, speak |-> SpeakIfEnabled(r, data.answer),
        outcome |-> "AnswerReceived"]
  ELSE [text |-> NoResponseText, speak |-> SpeakIfEnabled(r, NoResponseText),
        outcome |-> "NoAnswer"]

\* the try block after the awaits, for request r and parsed body data:
\* the message it adds and the text it speaks
Reply(r, data) ==
  IF HasAnswer(data)
  THEN [text |-> data.answer, speak |-> SpeakIfEnabled(r, data.answer),
        outcome |-> "AnswerReceived"]
  ELSE [text |-> NoResponseText, speak |-> NoSpeak, outcome |-> "NoAnswer"]

\* await response.json() of request i settles and sendToBackend runs to its end
jsonSettles(i) ==
  /\ i \in 1..Len(requests)
  /\ requests[i].pc = "json"
  /\ \E data \in Bodies :
       IF data.kind \in {"invalid", "null"}
       THEN Catch(i, data)
       ELSE LET reply == Reply(requests[i], data) IN
              /\ handled' = [status |-> requests[i].status, body |-> data]
              /\ messages' = addMessage(messages, reply.text, "llm")
              /\ speakOut' = reply.speak
              /\ alertOut' = NoAlert
              /\ Finally(i, reply.outcome, Len(messages) + 1)
              /\ UNCHANGED <<manualText, voiceOutputEnabled>>
  /\ UNCHANGED <<isListening, clockVars, voiceVars>>

\* --------------------------------------------------------- listening
\* mic button onPress={toggleListening}, up to its first await
toggleListening ==
  /\ awaiting.perm + awaiting.start + awaiting.stop < MaxToggles
  /\ IF isListening
     THEN awaiting' = [awaiting EXCEPT !.stop = @ + 1]
     ELSE awaiting' = [awaiting EXCEPT !.perm = @ + 1]
  /\ Quiet
  /\ UNCHANGED <<chatVars, isListening, clockVars>>

\* the answers requestMicrophonePermission can give
requestMicrophonePermission == IF PlatformOS = "android" THEN BOOLEAN ELSE {TRUE}

\* await requestMicrophonePermission() settles; Voice.start if granted
permissionSettles ==
  /\ awaiting.perm > 0
  /\ \E hasPermission \in requestMicrophonePermission :
       IF hasPermission
       THEN awaiting' = [awaiting EXCEPT !.perm = @ - 1, !.start = @ + 1]
       ELSE awaiting' = [awaiting EXCEPT !.perm = @ - 1]
  /\ Quiet
  /\ UNCHANGED <<chatVars, isListening, clockVars>>

\* await Voice.start('en-US') settles, resolved or rejected
startSettles ==
  /\ awaiting.start > 0
  /\ awaiting' = [awaiting EXCEPT !.start = @ - 1]
  /\ Quiet
  /\ UNCHANGED <<chatVars, isListening, clockVars>>

\* await Voice.stop() settles, resolved or rejected
stopSettles ==
  /\ awaiting.stop > 0
  /\ awaiting' = [awaiting EXCEPT !.stop = @ - 1]
  /\ Quiet
  /\ UNCHANGED <<chatVars, isListening, clockVars>>

\* Voice.onSpeechStart
onSpeechStart ==
  /\ isListening' = TRUE
  /\ Quiet
  /\ UNCHANGED <<chatVars, clockVars, voiceVars>>

\* Voice.onSpeechEnd
onSpeechEnd ==
  /\ isListening' = FALSE
  /\ Quiet
  /\ UNCHANGED <<chatVars, clockVars, voiceVars>>

\* onSpeechResults with its commented-out Tts.speak(recognizedText) restored
onSpeechResults_Speaks ==
  /\ \E e \in ResultValues :
       IF e.present /\ Len(e.value) > 0 /\ Truthy(e.value[1])
       THEN /\ manualText' = e.value[1]
            /\ speakOut' = IF voiceOutputEnabled THEN <<e.value[1]>> ELSE NoSpeak
       ELSE /\ UNCHANGED manualText
            /\ speakOut' = NoSpeak
  /\ alertOut' = NoAlert
  /\ handled' = NoResponse
  /\ UNCHANGED <<messages, voiceOutputEnabled, isSending, requests, completed>>
  /\ UNCHANGED <<isListening, clockVars, voiceVars>>

\* deliverResults that takes the last candidate of e.value, not the first
deliverResults_LastCandidate(e) ==
  /\ IF e.present /\ Len(e.value) > 0 /\ Truthy(e.value[Len(e.value)])
     THEN manualText' = e.value[Len(e.value)]
     ELSE UNCHANGED manualText
  /\ Quiet
  /\ UNCHANGED <<messages, voiceOutputEnabled, isSending, requests, completed>>
  /\ UNCHANGED <<isListening, clockVars, voiceVars>>

\* the body of Voice.onSpeechResults for the event e
deliverResults(e) ==
  /\ IF e.present /\ Len(e.value) > 0 /\ Truthy(e.value[1])
     THEN manualText' = e.value[1]
     ELSE UNCHANGED manualText
  /\ Quiet
  /\ UNCHANGED <<messages, voiceOutputEnabled, isSending, requests, completed>>
  /\ UNCHANGED <<isListening, clockVars, voiceVars>>

\* Voice.onSpeechResults
onSpeechResults == \E e \in ResultValues : deliverResults(e)

\* onSpeechError without setIsListening(false)
onSpeechError_KeepsListening ==
  /\ \E reason \in Reasons :
       alertOut' = <<"Speech Recognition Error", reason>>
  /\ speakOut' = NoSpeak
  /\ handled' = NoResponse
  /\ UNCHANGED isListening
  /\ UNCHANGED <<chatVars, clockVars, voiceVars>>

\* Voice.onSpeechError
onSpeechError ==
  /\ \E reason \in Reasons :
       alertOut' = <<"Speech Recognition Error", reason>>
  /\ speakOut' = NoSpeak
  /\ handled' = NoResponse
  /\ isListening' = FALSE
  /\ UNCHANGED <<chatVars, clockVars, voiceVars>>

\* the recognition engine's events, delivered at any time
RecognitionEvent ==
  \/ onSpeechStart
  \/ onSpeechEnd
  \/ onSpeechResults
  \/ onSpeechError

\* the conversation: typing, sending, the request, the loudspeaker button
\* and the recognition events
Next ==
  \/ Tick
  \/ toggleVoiceOutput
  \/ handleSend
  \/ \E i \in 1..MaxSends : fetchRejects(i)
  \/ \E i \in 1..MaxSends : fetchResolves(i)
  \/ \E i \in 1..MaxSends : jsonSettles(i)
  \/ onSpeechResults
  \/ onSpeechStart
  \/ onSpeechEnd
  \/ onSpeechError
  \/ onChangeText

Spec == Init /\ [][Next]_vars

\* the microphone: the mic button, its awaits and the recognition events
NextListen ==
  \/ toggleListening
  \/ permissionSettles
  \/ startSettles
  \/ stopSettles
  \/ onSpeechResults
  \/ onSpeechStart
  \/ onSpeechEnd
  \/ onSpeechError
  \/ onChangeText

SpecListen == Init /\ [][NextListen]_vars

\* the send button, the text input, the loudspeaker toggle and the requests
NextSend ==
  \/ toggleVoiceOutput
  \/ handleSend
  \/ \E i \in 1..MaxSends : fetchRejects(i)
  \/ \E i \in 1..MaxSends : fetchResolves(i)
  \/ \E i \in 1..MaxSends : jsonSettles(i)
  \/ onChangeText

\* an awaited fetch(...) and an awaited response.json() do settle
SpecLive ==
  /\ Init /\ [][NextSend]_vars
  /\ WF_vars(\E i \in 1..MaxSends : fetchRejects(i) \/ fetchResolves(i))
  /\ WF_vars(\E i \in 1..MaxSends : jsonSettles(i))

\* ---------------------------------------------------------------- claims
InputRequiredAlert == <<"Input Required", "Please enter some text.">>
ErrorAlert == <<"Error", "Failed to get response from the server.">>

Last(s) == s[Len(s)]

AllSpaces(s) == \A k \in 1..Len(s) : s[k] = " "

\* t is s without its leading and trailing whitespace
IsTrimOf(t, s) ==
  \E i, j \in 0..Len(s) :
    /\ i + j <= Len(s)
    /\ t = SubSeq(s, i + 1, Len(s) - j)
    /\ AllSpaces(SubSeq(s, 1, i))
    /\ AllSpaces(SubSeq(s, Len(s) - j + 1, Len(s)))
    /\ t # <<>> => t[1] # " " /\ t[Len(t)] # " "

Blank(s) == AllSpaces(s)

\* message k of the transcript is followed by no assistant message
NoAssistantAfter(k) == k = Len(messages) \/ messages[k + 1].sender = "user"

\* C1 as stated: every user message whose request has settled is immediately
\* followed by an assistant message, and the assistant messages stand in the
\* order in which the requests completed.
C1_EverySettledSendAnswered ==
  /\ \A k \in DOMAIN completed :
       /\ completed[k].userIdx < Len(messages)
       /\ messages[completed[k].userIdx + 1].sender = "llm"
  /\ \A j, k \in DOMAIN completed :
       j < k => completed[j].userIdx < completed[k].userIdx

\* C1 amended: a user message whose request settled as AnswerReceived or
\* NoAnswer is immediately followed by exactly one assistant message; one
\* whose request settled as RequestFailed is followed by none; every
\* assistant message is the reply of exactly one settled request, and the
\* replies stand in the order in which the requests completed.
C1_SettledSendAnsweredUnlessFailed ==
  /\ \A k \in DOMAIN completed :
       LET c == completed[k] IN
         /\ c.userIdx \in DOMAIN messages
         /\ messages[c.userIdx].sender = "user"
         /\ IF c.outcome \in {"AnswerReceived", "NoAnswer"}
            THEN /\ c.userIdx < Len(messages)
                 /\ messages[c.userIdx + 1].sender = "llm"
                 /\ c.ansIdx = c.userIdx + 1
                 /\ NoAssistantAfter(c.userIdx + 1)
            ELSE /\ c.outcome = "RequestFailed"
                 /\ NoAssistantAfter(c.userIdx)
  /\ \A m \in DOMAIN messages :
       messages[m].sender = "llm" =>
         Cardinality({k \in DOMAIN completed : completed[k].ansIdx = m}) = 1
  /\ \A j, k \in DOMAIN completed :
       j < k => /\ completed[j].userIdx < completed[k].userIdx
                /\ (completed[j].ansIdx > 0 /\ completed[k].ansIdx > 0
                      => completed[j].ansIdx < completed[k].ansIdx)

\* a failed send followed by an answered one
C1_Witness ==
  /\ Len(completed) = 2
  /\ completed[1].outcome = "RequestFailed"
  /\ completed[2].outcome = "AnswerReceived"
  /\ Len(messages) = 3
  /\ messages[3].sender = "llm"

\* C2: a send with an empty or whitespace-only buffer appends nothing, leaves
\* sending false, dispatches no request, leaves inputBuffer, listening and
\* voiceOutputEnabled as they were, and only reports 'input required'.
C2_BlankSendOnlyReports ==
  [][(handleSend /\ Blank(manualText)) =>
       /\ messages' = messages
       /\ isSending' = FALSE
       /\ requests' = requests
       /\ UNCHANGED <<manualText, isListening, voiceOutputEnabled>>
       /\ alertOut' = InputRequiredAlert
       /\ speakOut' = NoSpeak]_vars

\* a whitespace-only buffer was sent after an earlier exchange
C2_Witness ==
  /\ alertOut = InputRequiredAlert
  /\ manualText = <<" ", " ">>
  /\ Len(messages) = 2
  /\ ~isSending

\* C3: a send whose trimmed text t is non-empty appends {text: t, sender:
\* user} at the end of the transcript, empties inputBuffer, sets sending and
\* dispatches exactly one request, whose prompt is t, all in one step.
C3_SendAppendsClearsDispatches ==
  [][(handleSend /\ ~Blank(manualText)) =>
       /\ Len(messages') = Len(messages) + 1
       /\ SubSeq(messages', 1, Len(messages)) = messages
       /\ IsTrimOf(Last(messages').text, manualText)
       /\ Last(messages').sender = "user"
       /\ manualText' = <<>>
       /\ isSending' = TRUE
       /\ Len(requests') = Len(requests) + 1
       /\ SubSeq(requests', 1, Len(requests)) = requests
       /\ IsTrimOf(Last(requests').prompt, manualText)
       /\ Last(requests').pc = "fetch"]_vars

\* " a " was sent as "a" and its request is in flight
C3_Witness ==
  /\ isSending
  /\ Len(requests) = 1
  /\ requests[1].prompt = <<"a">>
  /\ Len(messages) = 3
  /\ messages[3] = [id |-> messages[3].id, text |-> <<"a">>, sender |-> "user"]
  /\ manualText = <<>>

\* response.ok: a status in the range 200-299
Ok(status) == status >= 200 /\ status <= 299

\* the task that ran is the end of a request's sendToBackend
Settles == \E i \in 1..MaxSends : jsonSettles(i)
Rejects == \E i \in 1..MaxSends : fetchRejects(i)

\* the request ended on a transport failure or a malformed response
FailedStep == Rejects \/ (Settles /\ handled'.body.kind \in {"invalid", "null"})

\* the request ended with a parsed payload that carries an answer
AnswerStep ==
  Settles /\ handled'.body.hasAnswer /\ handled'.body.answer # <<>>

\* the request ended with a parsed payload without an answer to show
NoAnswerStep ==
  Settles /\ handled'.body.kind = "object"
          /\ (~handled'.body.hasAnswer \/ handled'.body.answer = <<>>)

\* the step adds exactly one message at the end of the transcript
AppendsOne ==
  /\ Len(messages') = Len(messages) + 1
  /\ SubSeq(messages', 1, Len(messages)) = messages

\* C4 as stated: an answer is spoken exactly when voiceOutputEnabled is true
\* at the moment the response arrives, whatever it was at dispatch.
C4_SpokenIffEnabledOnArrival ==
  [][AnswerStep =>
       IF voiceOutputEnabled
       THEN speakOut' = <<handled'.body.answer>>
       ELSE speakOut' = NoSpeak]_vars

\* C5: a request that ends in RequestFailed (transport failure or malformed
\* response) appends nothing, reports the error, resets sending and leaves
\* inputBuffer, listening and voiceOutputEnabled as they were.
C5_FailureOnlyReports ==
  [][FailedStep =>
       /\ messages' = messages
       /\ alertOut' = ErrorAlert
       /\ speakOut' = NoSpeak
       /\ isSending' = FALSE
       /\ UNCHANGED <<manualText, isListening, voiceOutputEnabled>>]_vars

\* an unparsable body arrived while the user had typed, was listening and
\* had voice output on
C5_Witness ==
  /\ alertOut = ErrorAlert
  /\ handled.body.kind = "invalid"
  /\ ~isSending
  /\ Len(messages) = 1
  /\ manualText = <<"b">>
  /\ isListening
  /\ voiceOutputEnabled

\* C6 as stated: a response with a non-2xx status, whatever its body, and a
\* body that does not parse as JSON, are handled as RequestFailed: no
\* assistant message is appended and nothing is spoken.
C6_Non2xxHandledAsFailure ==
  [][(Settles /\ (~Ok(handled'.status) \/ handled'.body.kind = "invalid")) =>
       /\ messages' = messages
       /\ speakOut' = NoSpeak
       /\ alertOut' = ErrorAlert]_vars

\* C7: a successful response whose payload has no answer field appends
\* exactly one assistant message with the fixed fallback text, reports no
\* error, speaks nothing and resets sending.
C7_NoAnswerFieldShowsFallback ==
  [][(Settles /\ Ok(handled'.status) /\ handled'.body.kind = "object"
              /\ ~handled'.body.hasAnswer) =>
       /\ AppendsOne
       /\ Last(messages').text = <<"No response from LLM.">>
       /\ Last(messages').sender = "llm"
       /\ alertOut' = NoAlert
       /\ speakOut' = NoSpeak
       /\ isSending' = FALSE]_vars

\* a 200 response without an answer field was handled with voice output on
C7_Witness ==
  /\ handled = [status |-> 200,
                body |-> [kind |-> "object", hasAnswer |-> FALSE, answer |-> <<>>]]
  /\ Len(messages) = 2
  /\ messages[2].text = <<"No response from LLM.">>
  /\ voiceOutputEnabled
  /\ ~isSending

\* C8: a speak command is issued only by the task that handles an answer,
\* and its text is the text of the assistant message that task appends;
\* none is issued for a payload without answer, a failed request, a
\* recognition event or a send.
C8_SpeakOnlyForAnswerSameText ==
  [][/\ speakOut' # NoSpeak =>
          /\ AnswerStep
          /\ AppendsOne
          /\ Last(messages').sender = "llm"
          /\ Last(messages').text = handled'.body.answer
          /\ speakOut' = <<Last(messages').text>>
     /\ speakOut' = NoSpeak
          \/ ~(NoAnswerStep \/ FailedStep \/ RecognitionEvent \/ handleSend)]_vars

\* the answer "a" was appended and spoken
C8_Witness ==
  /\ speakOut = << <<"a">> >>
  /\ Len(messages) = 2
  /\ messages[2].text = <<"a">>
  /\ messages[2].sender = "llm"

\* the number an id denotes
RECURSIVE IdValue(_)
IdValue(d) ==
  IF d = <<>> THEN 0 ELSE 10 * IdValue(SubSeq(d, 1, Len(d) - 1)) + d[Len(d)]

\* C9 as stated: the ids of the transcript are pairwise different and
\* strictly increasing in transcript order, also for messages created in
\* the same clock instant.
C9_IdsDistinctAndIncreasing ==
  \A j, k \in DOMAIN messages :
    j < k => /\ messages[j].id # messages[k].id
             /\ IdValue(messages[j].id) < IdValue(messages[k].id)

\* C10: every step leaves the transcript unchanged or adds exactly one
\* message at its end; no message is reordered, modified or removed.
C10_TranscriptAppendOnly ==
  [][messages' = messages \/ AppendsOne]_vars

\* two exchanges, with recognition events and the loudspeaker toggled
C10_Witness ==
  /\ Len(messages) = 4
  /\ messages[4].sender = "llm"
  /\ isListening
  /\ voiceOutputEnabled
  /\ manualText = <<" ", "a", " ">>

\* ------------------------------------------------- claims on listening
\* the task that ran issued Voice.start: one more call waits on it
StartIssued == awaiting'.start = awaiting.start + 1

\* the task that ran issued Voice.stop: one more call waits on it
StopIssued == awaiting'.stop = awaiting.stop + 1

\* C11 as stated: once the Voice.stop() of a toggleListening made while
\* listening has settled, resolved or rejected, listening is false, whatever
\* recognition events were delivered meanwhile.
C11_StopSettledMeansIdle ==
  [][stopSettles => isListening' = FALSE]_vars

\* C12: a recognition error event sets listening to false, whether or not
\* Voice.stop() was called, reports the engine's reason to the user, and
\* leaves inputBuffer, the transcript, sending and voiceOutputEnabled as
\* they were.
C12_ErrorEventForcesIdle ==
  [][onSpeechError =>
       /\ isListening' = FALSE
       /\ \E reason \in Reasons :
            alertOut' = <<"Speech Recognition Error", reason>>
       /\ awaiting' = awaiting
       /\ UNCHANGED <<manualText, messages, isSending, voiceOutputEnabled, requests>>]_vars

\* the engine reported an error while a request was in flight and the user
\* had typed; no Voice.stop() is waited on
C12_Witness ==
  /\ alertOut = <<"Speech Recognition Error", "no match">>
  /\ ~isListening
  /\ awaiting.stop = 0
  /\ isSending
  /\ manualText = <<"b">>
  /\ Len(messages) = 3
  /\ voiceOutputEnabled

\* the results events that carry one or more candidates
WithCandidates == {e \in ResultValues : e.present /\ Len(e.value) >= 1}

\* what a results event leaves alone
ResultsFrame ==
  /\ UNCHANGED <<messages, isListening, isSending, voiceOutputEnabled, requests>>
  /\ awaiting' = awaiting

\* C13 as stated: a results event that carries one or more candidates puts
\* the top-ranked candidate verbatim into inputBuffer, listening or not, and
\* changes nothing else.
C13_ResultsReplaceBuffer ==
  [][\A e \in WithCandidates :
       deliverResults(e) => manualText' = e.value[1] /\ ResultsFrame]_vars

\* C13 amended: a results event whose top-ranked candidate is a non-empty
\* string puts that candidate verbatim into inputBuffer, listening or not;
\* one whose top-ranked candidate is the empty string leaves inputBuffer as
\* it was; in both cases nothing else changes and no request is dispatched.
C13_ResultsReplaceBufferUnlessEmpty ==
  [][\A e \in WithCandidates :
       deliverResults(e) =>
         /\ manualText' = IF e.value[1] # <<>> THEN e.value[1] ELSE manualText
         /\ ResultsFrame]_vars

\* " a " was recognized, untrimmed, while not listening and while a press of
\* the mic button awaited its Voice.start
C13_Witness ==
  /\ manualText = <<" ", "a", " ">>
  /\ ~isListening
  /\ awaiting.start = 1
  /\ alertOut = NoAlert

\* the task that ran is the continuation of a toggleListening whose
\* request for the microphone was refused
DeniedStep == permissionSettles /\ awaiting'.start = awaiting.start

\* C14 as stated: when microphone authorization is refused, no start command
\* is issued, listening is not changed, and the refusal is reported to the
\* user.
C14_DenialIsReported ==
  [][DeniedStep =>
       /\ ~StartIssued
       /\ isListening' = isListening
       /\ alertOut' # NoAlert]_vars

\* ------------------------------------------------------ claims on sending
\* the model's budget of sends is spent
SendsSpent == Len(requests) + Len(completed) >= MaxSends

\* C15: sending is never left stuck: once sending is true, and provided the
\* request completes (its fetch and its response.json() settle), sending
\* becomes false again and a further send can be made.
C15_SendingNeverStuck ==
  isSending ~> (~isSending /\ (SendsSpent \/ ENABLED handleSend))

\* two requests have ended, the first without an answer and the second
\* failed, and sending is false again
C15_Witness ==
  /\ ~isSending
  /\ Len(completed) = 2
  /\ completed[1].outcome = "NoAnswer"
  /\ completed[2].outcome = "RequestFailed"
  /\ requests = <<>>

\* the task that ran delivered the outcome of a request: it appended the
\* assistant message or reported the failure. In that task the delivery
\* (addMessage, Alert.alert) comes before the only write of isSending, the
\* one of the finally block, so the unprimed isSending is its value at the
\* moment of the delivery.
DeliveryStep == handled' # NoResponse /\ (Settles \/ Rejects)

C17_SendEnabledWhileSending ==
  (isSending /\ ~Blank(manualText) /\ ~SendsSpent) => ENABLED handleSend

\* C17 amended: the send action is disabled while sending is true, so no
\* second send can be made while a request is in flight, and at most one
\* request is in flight at any time.
C17_SendDisabledWhileSending ==
  /\ isSending => ~ENABLED handleSend
  /\ Len(requests) <= 1

\* a request is in flight, the user has typed the next text, and a further
\* send is within the model's budget
C17_Witness ==
  /\ isSending
  /\ Len(requests) = 1
  /\ manualText = <<"b">>
  /\ ~SendsSpent

\* C18: sending is true exactly when a dispatched request has not yet
\* resolved: never false with a request in flight, never true with none.
C18_SendingIffRequestInFlight ==
  isSending <=> Len(requests) > 0

\* a first request has ended and the second awaits the body of its response
C18_Witness ==
  /\ Len(completed) = 1
  /\ Len(requests) = 1
  /\ requests[1].pc = "json"
  /\ isSending

\* C19 as stated: every message of the transcript, from the user or from the
\* assistant, has a text that is neither empty nor only whitespace, whatever
\* answer the backend returns.
C19_NoBlankMessage ==
  \A m \in DOMAIN messages : ~Blank(messages[m].text)

\* C20 as stated: at most one recognition start command is outstanding: a
\* toggleListening never issues Voice.start while the Voice.start of an
\* earlier toggleListening is still awaited.
C20_OneStartOutstanding ==
  [][StartIssued => awaiting.start = 0]_vars
====
